---- MODULE Spec2Model ----
(***************************************************************************)
(* Model of scripts/migrate.py, the AgentBase migration runner.            *)
(*                                                                         *)
(* A filename is a sequence of character codes.  The ".sql" suffix every   *)
(* globbed file carries is one token, DOTSQL, whose code is that of '.',   *)
(* so that comparing two names compares them as Python compares the        *)
(* strings (no stem of the model contains '.').                            *)
(*                                                                         *)
(* The database is the tracking table _schema_migrations (tableExists,     *)
(* history: its rows in insertion order) and the public.profiles table     *)
(* (profiles).  One process, main(), runs at a time; pc is its position.   *)
(* A psql call either succeeds with its effect or exits non-zero without   *)
(* it, which run_sql / run_sql_file turn into an uncaught RuntimeError.    *)
(* SpecSqlError adds the third outcome of a run_sql call: the server       *)
(* rejects the statement and psql -f still exits 0 (run_sql_SqlError).     *)
(***************************************************************************)
EXTENDS Naturals, Sequences, FiniteSets

\* Character codes.
SPACE == 32
QUOTE == 34
DOTSQL == 46

\* Largest number of files in supabase/migrations/.
MaxCatalog == 3

\* The filenames a migration directory is drawn from:
\*   a.sql   b.sql   c.sql   "a.sql   (space)b.sql
Names ==
    { <<97, DOTSQL>>, <<98, DOTSQL>>, <<99, DOTSQL>>,
      <<QUOTE, 97, DOTSQL>>, <<SPACE, 98, DOTSQL>> }

NoName == <<>>

VARIABLES
    catalog,          \* the *.sql files in MIGRATIONS_DIR
    tableExists,      \* _schema_migrations exists
    history,          \* rows of _schema_migrations (filename), insertion order
    profiles,         \* public.profiles exists
    pc,               \* position of main(): "idle" when no run is in progress
    migration_files,  \* main's local
    applied,          \* main's local
    pending,          \* main's local
    idx,              \* position of the for loop in pending
    outcome,          \* how the last run ended: "none", "ok" (exit 0), "fail"
    \* history variables, recording what the current run did
    hist0,            \* history when the run started
    executed,         \* files run_sql_file was called on, in order
    succeeded,        \* files whose run_sql_file call returned
    seeded,           \* rows written by seed_prior_migrations
    failedScript,     \* file whose run_sql_file call raised, or NoName
    probed,           \* "no", or what schema_exists found: "absent", "present"
    prevOk,           \* settled, as it was when the run started
    orphan,           \* file executed whose record insert raised, while it
                      \* has not been recorded and no file was added since
    settled,          \* the last run ended with exit 0 and no file was added since
    calls,            \* the psql calls of the run, in order, by kind
    failure,          \* what made the run fail: "none", "password", "psql",
                      \* or the kind of the psql call that did not succeed
    table0,           \* tableExists when the run started
    \* history variables over all runs
    seedRuns,         \* number of runs whose seeding wrote rows
    everRan,          \* files whose run_sql_file call returned, in any run
    \* the environment
    healthy           \* no psql call fails any more

vars == << catalog, tableExists, history, profiles, pc, migration_files,
           applied, pending, idx, outcome, hist0, executed, succeeded,
           seeded, failedScript, probed, prevOk, orphan, settled, calls,
           failure, table0, seedRuns, everRan, healthy >>

db == << tableExists, history, profiles >>
locals == << migration_files, applied, pending, idx >>
trace == << hist0, executed, succeeded, seeded, failedScript, probed, prevOk >>

Range(s) == { s[k] : k \in 1..Len(s) }

IsPrefix(s, t) == Len(s) <= Len(t) /\ \A k \in 1..Len(s) : s[k] = t[k]

----------------------------------------------------------------------------
\* Python string operations

\* a < b for str: code point by code point, a proper prefix is smaller
RECURSIVE StrLess(_, _)
StrLess(a, b) ==
    IF b = <<>> THEN FALSE
    ELSE IF a = <<>> THEN TRUE
    ELSE IF Head(a) # Head(b) THEN Head(a) < Head(b)
    ELSE StrLess(Tail(a), Tail(b))

RECURSIVE lstrip(_, _)
lstrip(s, chars) ==
    IF s # <<>> /\ Head(s) \in chars THEN lstrip(Tail(s), chars) ELSE s

RECURSIVE rstrip(_, _)
rstrip(s, chars) ==
    IF s # <<>> /\ s[Len(s)] \in chars
    THEN rstrip(SubSeq(s, 1, Len(s) - 1), chars)
    ELSE s

\* str.strip(chars)
strip(s, chars) == rstrip(lstrip(s, chars), chars)

Whitespace == { SPACE }

\* insert x into the ascending list s
RECURSIVE InsertSorted(_, _)
InsertSorted(x, s) ==
    IF s = <<>> THEN << x >>
    ELSE IF StrLess(x, Head(s)) THEN << x >> \o s
    ELSE << Head(s) >> \o InsertSorted(x, Tail(s))

\* sorted(list)
RECURSIVE sorted(_)
sorted(s) ==
    IF s = <<>> THEN <<>> ELSE InsertSorted(Head(s), sorted(Tail(s)))

\* every order in which glob may yield the files of S
Orders(S) ==
    { p \in [1..Cardinality(S) -> S] : \A f \in S : \E k \in DOMAIN p : p[k] = f }

----------------------------------------------------------------------------
\* SQL statements

\* an INSERT into a table that has no key on filename
InsertRow_NoKey(rows, f) == Append(rows, f)

\* INSERT INTO _schema_migrations (filename) VALUES (f)
\*   ON CONFLICT (filename) DO NOTHING, filename being the PRIMARY KEY
InsertRow(rows, f) ==
    IF f \in Range(rows) THEN rows ELSE Append(rows, f)

\* the same statement with a list of VALUES
RECURSIVE InsertRows(_, _)
InsertRows(rows, fs) ==
    IF fs = <<>> THEN rows
    ELSE InsertRows(InsertRow(rows, Head(fs)), Tail(fs))

\* SELECT filename FROM _schema_migrations ORDER BY filename, as psql prints
\* it with format unaligned and tuples_only: one raw value per line
SelectFilenames(rows) == sorted(rows)

\* get_applied_migrations: the set parsed from the output lines
ParseApplied(lines) ==
    { strip(strip(lines[k], Whitespace), {QUOTE}) :
        k \in { j \in 1..Len(lines) : strip(lines[j], Whitespace) # <<>> } }

\* migration_files[:], the last file seeded with the others
AllButLast_All(s) == s

\* migration_files[:-1]
AllButLast(s) == SubSeq(s, 1, Len(s) - 1)

\* [f for f in migration_files if f not in applied]
RECURSIVE Filter(_, _)
Filter(s, appl) ==
    IF s = <<>> THEN <<>>
    ELSE IF Head(s) \in appl THEN Filter(Tail(s), appl)
    ELSE << Head(s) >> \o Filter(Tail(s), appl)

----------------------------------------------------------------------------
TypeOK ==
    /\ catalog \subseteq Names
    /\ tableExists \in BOOLEAN
    /\ profiles \in BOOLEAN
    /\ Range(history) \subseteq Names
    /\ pc \in { "idle", "ensure", "read", "probe", "seed", "reread",
                "pending", "apply", "record" }
    /\ outcome \in { "none", "ok", "fail" }
    /\ settled \in BOOLEAN
    /\ probed \in { "no", "absent", "present" }
    /\ idx \in 0..Len(pending)
    /\ pc \in { "apply", "record" } => idx \in 1..Len(pending)
    /\ Range(calls) \subseteq { "ensure", "select", "probe", "seed", "file",
                                "insert" }
    /\ failure \in { "none", "password", "psql" } \cup Range(calls)
    /\ table0 \in BOOLEAN
    /\ seedRuns \in Nat
    /\ everRan \subseteq Names
    /\ healthy \in BOOLEAN

Init ==
    /\ catalog \in { S \in SUBSET Names : Cardinality(S) <= MaxCatalog }
    /\ tableExists = FALSE
    /\ history = <<>>
    /\ profiles \in BOOLEAN
    /\ pc = "idle"
    /\ migration_files = <<>>
    /\ applied = {}
    /\ pending = <<>>
    /\ idx = 0
    /\ outcome = "none"
    /\ hist0 = <<>>
    /\ executed = <<>>
    /\ succeeded = {}
    /\ seeded = {}
    /\ failedScript = NoName
    /\ probed = "no"
    /\ prevOk = FALSE
    /\ orphan = NoName
    /\ settled = FALSE
    /\ calls = <<>>
    /\ failure = "none"
    /\ table0 = FALSE
    /\ seedRuns = 0
    /\ everRan = {}
    /\ healthy = FALSE

\* A run starts: the process has fresh locals and has done nothing yet.
Fresh ==
    /\ applied' = {}
    /\ pending' = <<>>
    /\ idx' = 0
    /\ hist0' = history
    /\ executed' = <<>>
    /\ succeeded' = {}
    /\ seeded' = {}
    /\ failedScript' = NoName
    /\ probed' = "no"
    /\ prevOk' = settled
    /\ calls' = <<>>
    /\ table0' = tableExists

\* sys.exit(1), or an uncaught RuntimeError
Exit1 ==
    /\ pc' = "idle"
    /\ outcome' = "fail"
    /\ settled' = FALSE

\* main returns
Exit0 ==
    /\ pc' = "idle"
    /\ outcome' = "ok"
    /\ settled' = TRUE

\* how a psql call may end: while the environment is not healthy it may
\* exit non-zero (FALSE)
Outcomes == IF healthy THEN { TRUE } ELSE BOOLEAN

\* a statement on _schema_migrations can succeed only while the table exists
TableOutcomes == { ok \in Outcomes : ok => tableExists }

\* subprocess.run(["psql", ...]) is called for a statement of this kind;
\* the first call of the run that does not succeed is the run's failure
Call(kind, ok) ==
    /\ calls' = Append(calls, kind)
    /\ failure' = IF ok \/ failure # "none" THEN failure ELSE kind

\* An operator adds a migration file between runs.
AddMigration ==
    /\ pc = "idle"
    /\ Cardinality(catalog) < MaxCatalog
    /\ \E f \in Names \ catalog : catalog' = catalog \cup { f }
    /\ settled' = FALSE
    /\ orphan' = NoName
    /\ UNCHANGED << db, pc, locals, outcome, trace, calls, failure, table0,
                    seedRuns, everRan, healthy >>

\* From now on nothing fails: PGPASSWORD is set, psql is found, and every
\* psql call exits 0.
Heal ==
    /\ ~healthy
    /\ healthy' = TRUE
    /\ UNCHANGED << catalog, db, pc, locals, outcome, trace, calls, failure,
                    table0, orphan, settled, seedRuns, everRan >>

\* main, PGPASSWORD unset
MissingPassword ==
    /\ pc = "idle"
    /\ ~healthy
    /\ Fresh
    /\ migration_files' = <<>>
    /\ failure' = "password"
    /\ Exit1
    /\ UNCHANGED << catalog, db, orphan, seedRuns, everRan, healthy >>

\* psql is looked for only after the tracking table has been ensured
PsqlNotFound_Late ==
    /\ pc = "idle"
    /\ ~healthy
    /\ Fresh
    /\ migration_files' = <<>>
    /\ failure' = "psql"
    /\ tableExists' = TRUE
    /\ Exit1
    /\ UNCHANGED << catalog, history, profiles, orphan, seedRuns, everRan,
                    healthy >>

\* main, force_ipv4 and then `which psql` fails
PsqlNotFound ==
    /\ pc = "idle"
    /\ ~healthy
    /\ Fresh
    /\ migration_files' = <<>>
    /\ failure' = "psql"
    /\ Exit1
    /\ UNCHANGED << catalog, db, orphan, seedRuns, everRan, healthy >>

\* main, configuration present: the directory is listed and sorted
Discover ==
    /\ pc = "idle"
    /\ Fresh
    /\ \E order \in Orders(catalog) : migration_files' = sorted(order)
    /\ failure' = "none"
    /\ IF catalog = {}
       THEN Exit0
       ELSE /\ pc' = "ensure"
            /\ UNCHANGED << outcome, settled >>
    /\ UNCHANGED << catalog, db, orphan, seedRuns, everRan, healthy >>

\* DROP TABLE, then CREATE TABLE
ensure_migrations_table_Recreate ==
    /\ pc = "ensure"
    /\ \E ok \in Outcomes :
         /\ Call("ensure", ok)
         /\ IF ok
            THEN /\ tableExists' = TRUE
                 /\ history' = <<>>
                 /\ pc' = "read"
                 /\ UNCHANGED << outcome, settled >>
            ELSE /\ Exit1
                 /\ UNCHANGED << tableExists, history >>
    /\ UNCHANGED << catalog, profiles, locals, trace, table0, orphan,
                    seedRuns, everRan, healthy >>

\* the CREATE TABLE statement is not sent
ensure_migrations_table_Skip ==
    /\ pc = "ensure"
    /\ \E ok \in Outcomes :
         /\ Call("ensure", ok)
         /\ IF ok
            THEN /\ pc' = "read"
                 /\ UNCHANGED << outcome, settled >>
            ELSE Exit1
    /\ UNCHANGED << catalog, db, locals, trace, table0, orphan,
                    seedRuns, everRan, healthy >>

ensure_migrations_table ==
    /\ pc = "ensure"
    /\ \E ok \in Outcomes :
         /\ Call("ensure", ok)
         /\ IF ok
            THEN /\ tableExists' = TRUE
                 /\ pc' = "read"
                 /\ UNCHANGED << outcome, settled >>
            ELSE /\ Exit1
                 /\ UNCHANGED tableExists
    /\ UNCHANGED << catalog, history, profiles, locals, trace, table0, orphan,
                    seedRuns, everRan, healthy >>

\* applied = get_applied_migrations(), then `not applied and ...`
get_applied_migrations ==
    /\ pc = "read"
    /\ \E ok \in TableOutcomes :
         /\ Call("select", ok)
         /\ IF ok
            THEN /\ applied' = ParseApplied(SelectFilenames(history))
                 /\ pc' = IF applied' = {} THEN "probe" ELSE "pending"
                 /\ UNCHANGED << outcome, settled >>
            ELSE /\ Exit1
                 /\ UNCHANGED applied
    /\ UNCHANGED << catalog, db, migration_files, pending, idx, trace, table0,
                    orphan, seedRuns, everRan, healthy >>

\* the probe's answer taken the wrong way round
schema_exists_Inverted ==
    /\ pc = "probe"
    /\ \E ok \in Outcomes :
         /\ Call("probe", ok)
         /\ IF ok
            THEN /\ pc' = IF profiles THEN "pending" ELSE "seed"
                 /\ probed' = IF profiles THEN "present" ELSE "absent"
                 /\ UNCHANGED << outcome, settled >>
            ELSE /\ Exit1
                 /\ UNCHANGED probed
    /\ UNCHANGED << catalog, db, locals, hist0, executed, succeeded, seeded,
                    failedScript, prevOk, table0, orphan, seedRuns, everRan,
                    healthy >>

schema_exists ==
    /\ pc = "probe"
    /\ \E ok \in Outcomes :
         /\ Call("probe", ok)
         /\ IF ok
            THEN /\ pc' = IF profiles THEN "seed" ELSE "pending"
                 /\ probed' = IF profiles THEN "present" ELSE "absent"
                 /\ UNCHANGED << outcome, settled >>
            ELSE /\ Exit1
                 /\ UNCHANGED probed
    /\ UNCHANGED << catalog, db, locals, hist0, executed, succeeded, seeded,
                    failedScript, prevOk, table0, orphan, seedRuns, everRan,
                    healthy >>

seed_prior_migrations ==
    /\ pc = "seed"
    /\ LET to_seed == AllButLast(migration_files) IN
         IF to_seed = <<>>
         THEN /\ pc' = "reread"
              /\ UNCHANGED << history, seeded, outcome, settled, calls,
                              failure, seedRuns >>
         ELSE \E ok \in TableOutcomes :
                /\ Call("seed", ok)
                /\ IF ok
                   THEN /\ history' = InsertRows(history, to_seed)
                        /\ seeded' = Range(history') \ Range(history)
                        /\ seedRuns' = IF seeded' = {} THEN seedRuns
                                       ELSE seedRuns + 1
                        /\ pc' = "reread"
                        /\ UNCHANGED << outcome, settled >>
                   ELSE /\ Exit1
                        /\ UNCHANGED << history, seeded, seedRuns >>
    /\ UNCHANGED << catalog, tableExists, profiles, locals, hist0, executed,
                    succeeded, failedScript, probed, prevOk, table0, orphan,
                    everRan, healthy >>

\* applied = get_applied_migrations() after seeding
ReadAfterSeed ==
    /\ pc = "reread"
    /\ \E ok \in TableOutcomes :
         /\ Call("select", ok)
         /\ IF ok
            THEN /\ applied' = ParseApplied(SelectFilenames(history))
                 /\ pc' = "pending"
                 /\ UNCHANGED << outcome, settled >>
            ELSE /\ Exit1
                 /\ UNCHANGED applied
    /\ UNCHANGED << catalog, db, migration_files, pending, idx, trace, table0,
                    orphan, seedRuns, everRan, healthy >>

\* pending = [...]; if not pending: return
ComputePending ==
    /\ pc = "pending"
    /\ pending' = Filter(migration_files, applied)
    /\ IF pending' = <<>>
       THEN /\ Exit0
            /\ UNCHANGED idx
       ELSE /\ pc' = "apply"
            /\ idx' = 1
            /\ UNCHANGED << outcome, settled >>
    /\ UNCHANGED << catalog, db, migration_files, applied, trace, calls,
                    failure, table0, orphan, seedRuns, everRan, healthy >>

\* a failing script is reported and the loop goes on to record it
run_sql_file_Continue ==
    /\ pc = "apply"
    /\ LET filename == pending[idx] IN
       \E ok \in Outcomes, creates \in BOOLEAN :
         /\ Call("file", ok)
         /\ profiles' = (profiles \/ creates)
         /\ executed' = Append(executed, filename)
         /\ pc' = "record"
         /\ IF ok
            THEN /\ succeeded' = succeeded \cup { filename }
                 /\ everRan' = everRan \cup { filename }
                 /\ UNCHANGED failedScript
            ELSE /\ failedScript' = filename
                 /\ UNCHANGED << succeeded, everRan >>
    /\ UNCHANGED << catalog, tableExists, history, locals, hist0, seeded,
                    probed, prevOk, table0, orphan, outcome, settled,
                    seedRuns, healthy >>

\* run_sql_file(MIGRATIONS_DIR / filename): the script may create
\* public.profiles, also when a later statement of it fails
run_sql_file ==
    /\ pc = "apply"
    /\ LET filename == pending[idx] IN
       \E ok \in Outcomes, creates \in BOOLEAN :
         /\ Call("file", ok)
         /\ profiles' = (profiles \/ creates)
         /\ executed' = Append(executed, filename)
         /\ IF ok
            THEN /\ succeeded' = succeeded \cup { filename }
                 /\ everRan' = everRan \cup { filename }
                 /\ pc' = "record"
                 /\ UNCHANGED << failedScript, outcome, settled >>
            ELSE /\ failedScript' = filename
                 /\ Exit1
                 /\ UNCHANGED << succeeded, everRan >>
    /\ UNCHANGED << catalog, tableExists, history, locals, hist0, seeded,
                    probed, prevOk, table0, orphan, seedRuns, healthy >>

\* run_sql(INSERT ... filename ...), then the next iteration or the return
RecordApplied ==
    /\ pc = "record"
    /\ LET filename == pending[idx] IN
       \E ok \in TableOutcomes :
         /\ Call("insert", ok)
         /\ IF ok
            THEN /\ history' = InsertRow(history, filename)
                 /\ orphan' = IF orphan = filename THEN NoName ELSE orphan
                 /\ IF idx < Len(pending)
                    THEN /\ idx' = idx + 1
                         /\ pc' = "apply"
                         /\ UNCHANGED << outcome, settled >>
                    ELSE /\ Exit0
                         /\ UNCHANGED idx
            ELSE /\ orphan' = filename
                 /\ Exit1
                 /\ UNCHANGED << history, idx >>
    /\ UNCHANGED << catalog, tableExists, profiles, migration_files, applied,
                    pending, trace, table0, seedRuns, everRan, healthy >>

\* which statement main is about to send through run_sql
SqlKind ==
    IF pc = "ensure" THEN "ensure"
    ELSE IF pc \in { "read", "reread" } THEN "select"
    ELSE IF pc = "probe" THEN "probe"
    ELSE IF pc = "seed" THEN "seed"
    ELSE "insert"

\* run_sql when the statement fails in the server and psql, run with -f and
\* without ON_ERROR_STOP, reports the error on stderr and exits 0 (the
\* outcome lines 84-87 look for in run_sql_file): run_sql looks at the
\* return code only, so it returns the empty stdout and main goes on
run_sql_SqlError ==
    /\ pc \in { "ensure", "read", "probe", "seed", "reread", "record" }
    /\ pc = "seed" => AllButLast(migration_files) # <<>>
    /\ Call(SqlKind, FALSE)
    /\ applied' = IF pc \in { "read", "reread" } THEN {} ELSE applied
    /\ probed' = IF pc = "probe" THEN "absent" ELSE probed
    /\ IF pc = "record"
       THEN IF idx < Len(pending)
            THEN /\ idx' = idx + 1
                 /\ pc' = "apply"
                 /\ UNCHANGED << outcome, settled >>
            ELSE /\ Exit0
                 /\ UNCHANGED idx
       ELSE /\ pc' = IF pc = "ensure" THEN "read"
                     ELSE IF pc = "read" THEN "probe"
                     ELSE IF pc = "seed" THEN "reread"
                     ELSE "pending"
            /\ UNCHANGED << idx, outcome, settled >>
    /\ UNCHANGED << catalog, db, migration_files, pending, hist0, executed,
                    succeeded, seeded, failedScript, prevOk, table0, orphan,
                    seedRuns, everRan, healthy >>

\* the runner, run again and again while files are added
Next ==
    \/ AddMigration
    \/ MissingPassword
    \/ PsqlNotFound
    \/ Discover
    \/ ensure_migrations_table
    \/ get_applied_migrations
    \/ schema_exists
    \/ seed_prior_migrations
    \/ ReadAfterSeed
    \/ ComputePending
    \/ run_sql_file
    \/ RecordApplied

Spec == Init /\ [][Next]_vars

\* the same, on a database that starts without public.profiles
InitFresh == Init /\ profiles = FALSE

SpecFresh == InitFresh /\ [][Next]_vars

\* a step of a run in progress
RunStep ==
    \/ ensure_migrations_table
    \/ get_applied_migrations
    \/ schema_exists
    \/ seed_prior_migrations
    \/ ReadAfterSeed
    \/ ComputePending
    \/ run_sql_file
    \/ RecordApplied

\* the runner, run again and again over a catalog that does not change
NextFixed ==
    \/ MissingPassword
    \/ PsqlNotFound
    \/ Discover
    \/ ensure_migrations_table
    \/ get_applied_migrations
    \/ schema_exists
    \/ seed_prior_migrations
    \/ ReadAfterSeed
    \/ ComputePending
    \/ run_sql_file
    \/ RecordApplied

SpecFixed == Init /\ [][NextFixed]_vars

\* the same, psql also ending a statement of run_sql with an SQL error and
\* exit code 0
NextSqlError ==
    \/ MissingPassword
    \/ PsqlNotFound
    \/ Discover
    \/ ensure_migrations_table
    \/ get_applied_migrations
    \/ schema_exists
    \/ seed_prior_migrations
    \/ ReadAfterSeed
    \/ ComputePending
    \/ run_sql_file
    \/ RecordApplied
    \/ run_sql_SqlError

SpecSqlError == Init /\ [][NextSqlError]_vars

\* a fixed catalog, the runner invoked again and again, every run carried
\* through, and failures that stop at some point
NextLive ==
    \/ Heal
    \/ MissingPassword
    \/ PsqlNotFound
    \/ Discover
    \/ ensure_migrations_table
    \/ get_applied_migrations
    \/ schema_exists
    \/ seed_prior_migrations
    \/ ReadAfterSeed
    \/ ComputePending
    \/ run_sql_file
    \/ RecordApplied

SpecLive ==
    /\ Init
    /\ [][NextLive]_vars
    /\ WF_vars(Heal)
    /\ WF_vars(Discover)
    /\ WF_vars(RunStep)

----------------------------------------------------------------------------
\* What the current run has done, read off the history variables.

\* the History Records the run found when it last read the history
ReadAsRecorded == Range(hist0) \cup seeded

\* the rows the run's loop has added (line 176), after the history was read
Recorded == Range(history) \ ReadAsRecorded

\* the pending scripts after the one the loop is at
LaterPending == { pending[k] : k \in (idx + 1)..Len(pending) }

\* every name of S is parsed from psql's output as it was written
ReadBack(S) == \A f \in S : ParseApplied(<< f >>) = { f }

Ascending(s) == \A j, k \in 1..Len(s) : j < k => StrLess(s[j], s[k])

InLoop == pc \in { "apply", "record" }

----------------------------------------------------------------------------
\* C1: a file that had a History Record when the run read the history is not
\* executed by the run: every file the current run has called run_sql_file on
\* was absent from the rows of the table the run read (those it started with
\* and those its seeding wrote).
C1_NothingRunsTwice == Range(executed) \cap ReadAsRecorded = {}

\* C2: a run that follows a run that ended with exit 0, with no file added in
\* between, executes no script and writes no History Record.
C2_SecondRunIdle == prevOk => (executed = <<>> /\ history = hist0)

\* C3: the table is append-only: every step keeps the rows there were, in
\* place, and never drops the table.
C3_AppendOnly ==
    [][IsPrefix(history, history') /\ (tableExists => tableExists')]_vars

\* a run that wrote History Records and then aborted on a failing script
C3_Witness ==
    /\ pc = "idle"
    /\ outcome = "fail"
    /\ failedScript # NoName
    /\ hist0 # <<>>
    /\ Len(history) > Len(hist0)

C5_Reexecuted ==
    (orphan # NoName /\ InLoop /\ ReadBack(catalog)) =>
        orphan \in Range(pending)

\* C6: a run over n >= 2 files that read an empty history and found
\* public.profiles has, once seeding is done, exactly the first n-1 names in
\* the table; its Pending Set is the last name alone and it executes no other
\* file.
C6_SeedExisting ==
    (probed = "present" /\ Len(migration_files) >= 2) =>
        LET last == migration_files[Len(migration_files)] IN
        /\ pc \in { "reread", "pending" } =>
               /\ history = AllButLast(migration_files)
               /\ seeded = Range(history)
        /\ InLoop => pending = << last >>
        /\ Range(executed) \subseteq { last }

\* C7: a run that read an empty history and found no public.profiles seeds
\* nothing; its Pending Set is the whole sorted catalog, and when it ends with
\* exit 0 it has executed every file of it, in order.
C7_FreshSeedsNothing ==
    probed = "absent" =>
        /\ seeded = {}
        /\ hist0 = <<>>
        /\ pc = "pending" => history = <<>>
        /\ pc # "idle" => Range(migration_files) = catalog
        /\ InLoop => pending = migration_files
        /\ (pc = "idle" /\ outcome = "ok") => executed = migration_files

\* the loop of such a run over at least two files
C7_Witness ==
    /\ probed = "absent"
    /\ pc = "apply"
    /\ Len(pending) >= 2

\* C8: a run over exactly one file that read an empty history and found
\* public.profiles seeds nothing; the file is pending, and when the run ends
\* with exit 0 it has executed it.
C8_SingleFile ==
    (probed = "present" /\ Len(migration_files) = 1) =>
        /\ seeded = {}
        /\ pc \in { "reread", "pending" } => history = <<>>
        /\ InLoop => pending = migration_files
        /\ (pc = "idle" /\ outcome = "ok") => executed = migration_files

\* such a run, ended with exit 0
C8_Witness ==
    /\ probed = "present"
    /\ Len(migration_files) = 1
    /\ pc = "idle"
    /\ outcome = "ok"
    /\ executed = migration_files
    /\ history = migration_files

\* C9: when the loop starts, the Pending Set is the catalog names that have no
\* row in the table, in ascending order, and the run executes files in
\* strictly ascending order.
C9_PendingOrder ==
    /\ (pc = "apply" /\ idx = 1) => Range(pending) = catalog \ Range(history)
    /\ InLoop => Ascending(pending)
    /\ Ascending(executed)

\* C10: the table holds at most one row per filename.
C10_OneRecordPerName ==
    \A j, k \in 1..Len(history) : history[j] = history[k] => j = k

\* a run that executed only files already recorded, inserted their names
\* again and ended with exit 0, the table as it was
C10_Witness ==
    /\ pc = "idle"
    /\ outcome = "ok"
    /\ executed # <<>>
    /\ Range(executed) \subseteq Range(hist0)
    /\ history = hist0

C12_EarlyFatal ==
    failure \in { "password", "psql" } =>
        /\ pc = "idle"
        /\ outcome = "fail"
        /\ calls = <<>>
        /\ executed = <<>>
        /\ history = hist0
        /\ tableExists = table0

\* psql is not found, on a database that has no table yet
C12_Witness ==
    /\ failure = "psql"
    /\ ~tableExists
    /\ outcome = "fail"

C14_FailureIsFatal ==
    failure \notin { "none", "password", "psql" } =>
        /\ pc = "idle"
        /\ outcome = "fail"
        /\ calls[Len(calls)] = failure

\* C15: at most one run ever writes seeded rows, and a run that writes them
\* started on an empty table.
C15_SeedOnce ==
    /\ seedRuns <= 1
    /\ seeded # {} => (hist0 = <<>> /\ seedRuns = 1)

\* C16: on a database that started without public.profiles, every file that
\* has a row in the table was executed successfully by some run.
C16_RecordIsProof == Range(history) \subseteq everRan

\* the catalog in sort order
SortedCatalog == CHOOSE s \in Orders(catalog) : Ascending(s)

\* every catalog file sorting before f has a row
PredecessorsRecorded(f) ==
    \A g \in catalog : StrLess(g, f) => g \in Range(history)

\* C17: with a fixed catalog the recorded names are the first k names of the
\* catalog in sort order, for some k, and a script has been executed only
\* with every catalog file before it recorded.
C17_NoGaps ==
    /\ \E k \in 0..Len(SortedCatalog) :
           Range(history) = { SortedCatalog[j] : j \in 1..k }
    /\ pc = "record" => PredecessorsRecorded(pending[idx])
    /\ failedScript # NoName => PredecessorsRecorded(failedScript)

\* C18: with a fixed catalog, the runner run again and again and failures
\* that stop, every run ends, and from some point on every catalog name is
\* recorded and no run executes anything.
C18_Converges ==
    /\ []<>(pc = "idle")
    /\ <>[](catalog \subseteq Range(history) /\ executed = <<>>)

====
